---- MODULE Spec2Model ----
(***************************************************************************)
(* The MIP-003 job endpoints of app.py (start_job, status, provide_input,  *)
(* input_schema) over the in-memory job store `jobs`.                       *)
(*                                                                         *)
(* Every handler is an operator from (store, request, generated ids) to    *)
(* (new store, response); the actions apply one handler to one request.    *)
(* Responses are the JSON bodies the handlers build, with the HTTP code in *)
(* the field http.  Fields of the start_job response that depend on the    *)
(* clock or the environment (payByTime, agentIdentifier, ...) and the      *)
(* blockchainIdentifier are left out: no handler reads them back.          *)
(***************************************************************************)
EXTENDS Integers, Sequences, FiniteSets, TLC

VARIABLES
    jobs,         \* the dict `jobs`: job_id -> job record
    lastReq,      \* the request handled by the last step (op = which endpoint)
    lastResp,     \* the response of the last step
    returned,     \* history: job_ids returned by successful start_job calls
    issued,       \* history: status_ids returned by successful start_job calls
    conc,         \* the provide_input requests in flight on the server's threads
    everRunning   \* history: job_ids whose stored status has been "running"

vars == <<jobs, lastReq, lastResp, returned, issued, conc, everRunning>>

---------------------------------------------------------------------------
(* Bounds of the model. *)

MaxJobIds == 2
MaxStatusIds == 2

(* uuid4() is the identifier generator: no two of its draws are equal.   *)
(* A status_id, str(uuid4()), is a whole draw: start_job takes one of     *)
(* 1..MaxStatusIds that it has not taken before.  A job_id,                *)
(* uuid4().hex[:8], keeps the first 8 hex digits of a draw only, which two *)
(* different draws can share: it is any of 1..MaxJobIds.  The draw status  *)
(* makes for the "id" of its answer is none of the status_ids.             *)
JobIds == 1..MaxJobIds
StatusIds == 1..MaxStatusIds
ResponseIds == {MaxStatusIds + 1}

(* A missing or empty id parameter: body.get(..) is None, or "" (falsy). *)
NoId == 0

(* Python's None for string-valued fields. *)
None == "None"

(* get_job's None (and any empty dict): `not job` holds. *)
NoJob == <<>>

---------------------------------------------------------------------------
(* base64.b64decode(...).decode("utf-8"), hashlib.md5 *)

(* A base64 text is a sequence of symbols: 0..63 are the alphabet          *)
(* A-Z a-z 0-9 + / in order, Pad is '=', anything larger is a character    *)
(* outside the alphabet.                                                    *)
Pad == 64

(* binascii.a2b_base64 in its default, non-strict mode, as b64decode calls *)
(* it: characters outside the alphabet are skipped, a completed pad        *)
(* sequence ends the parse, leftover sextets are an error.                  *)
RECURSIVE a2b_base64(_, _, _, _, _, _)
a2b_base64(s, i, quad_pos, pads, leftchar, out) ==
    IF i > Len(s) THEN [ok |-> quad_pos = 0, bytes |-> out]
    ELSE LET ch == s[i] IN
        IF ch = Pad THEN
            IF quad_pos >= 2 /\ quad_pos + pads + 1 >= 4
            THEN [ok |-> TRUE, bytes |-> out]
            ELSE a2b_base64(s, i + 1, quad_pos,
                            IF quad_pos >= 2 THEN pads + 1 ELSE pads,
                            leftchar, out)
        ELSE IF ch > Pad THEN a2b_base64(s, i + 1, quad_pos, pads, leftchar, out)
        ELSE IF quad_pos = 0 THEN a2b_base64(s, i + 1, 1, 0, ch, out)
        ELSE IF quad_pos = 1 THEN
            a2b_base64(s, i + 1, 2, 0, ch % 16,
                       Append(out, leftchar * 4 + (ch \div 16)))
        ELSE IF quad_pos = 2 THEN
            a2b_base64(s, i + 1, 3, 0, ch % 4,
                       Append(out, leftchar * 16 + (ch \div 4)))
        ELSE a2b_base64(s, i + 1, 0, 0, 0, Append(out, leftchar * 64 + ch))

b64decode(s) == a2b_base64(s, 1, 0, 0, 0, <<>>)

IsCont(b) == b >= 128 /\ b <= 191

(* bytes.decode("utf-8"), strict: the code points, or ok = FALSE where     *)
(* Python raises UnicodeDecodeError (bad start byte, bad or missing        *)
(* continuation byte, overlong form, surrogate, beyond U+10FFFF).          *)
RECURSIVE utf8_decode(_, _, _)
utf8_decode(b, i, out) ==
    IF i > Len(b) THEN [ok |-> TRUE, chars |-> out]
    ELSE LET b0 == b[i]
             n  == Len(b) - i   \* bytes after b0
         IN
        IF b0 < 128 THEN utf8_decode(b, i + 1, Append(out, b0))
        ELSE IF b0 >= 194 /\ b0 <= 223 THEN
            IF n >= 1 /\ IsCont(b[i + 1])
            THEN utf8_decode(b, i + 2,
                             Append(out, (b0 - 192) * 64 + (b[i + 1] - 128)))
            ELSE [ok |-> FALSE, chars |-> <<>>]
        ELSE IF b0 >= 224 /\ b0 <= 239 THEN
            IF n >= 2 /\ IsCont(b[i + 1]) /\ IsCont(b[i + 2])
               /\ (b0 = 224 => b[i + 1] >= 160)
               /\ (b0 = 237 => b[i + 1] <= 159)
            THEN utf8_decode(b, i + 3,
                             Append(out, (b0 - 224) * 4096
                                         + (b[i + 1] - 128) * 64
                                         + (b[i + 2] - 128)))
            ELSE [ok |-> FALSE, chars |-> <<>>]
        ELSE IF b0 >= 240 /\ b0 <= 244 THEN
            IF n >= 3 /\ IsCont(b[i + 1]) /\ IsCont(b[i + 2]) /\ IsCont(b[i + 3])
               /\ (b0 = 240 => b[i + 1] >= 144)
               /\ (b0 = 244 => b[i + 1] <= 143)
            THEN utf8_decode(b, i + 4,
                             Append(out, (b0 - 240) * 262144
                                         + (b[i + 1] - 128) * 4096
                                         + (b[i + 2] - 128) * 64
                                         + (b[i + 3] - 128)))
            ELSE [ok |-> FALSE, chars |-> <<>>]
        ELSE [ok |-> FALSE, chars |-> <<>>]

(* str.encode("utf-8") of a sequence of code points. *)
RECURSIVE utf8_encode(_, _, _)
utf8_encode(c, i, out) ==
    IF i > Len(c) THEN out
    ELSE LET p == c[i] IN
        IF p < 128 THEN utf8_encode(c, i + 1, Append(out, p))
        ELSE IF p < 2048 THEN
            utf8_encode(c, i + 1, out \o <<192 + (p \div 64), 128 + (p % 64)>>)
        ELSE IF p < 65536 THEN
            utf8_encode(c, i + 1,
                        out \o <<224 + (p \div 4096),
                                 128 + ((p \div 64) % 64),
                                 128 + (p % 64)>>)
        ELSE utf8_encode(c, i + 1,
                         out \o <<240 + (p \div 262144),
                                  128 + ((p \div 4096) % 64),
                                  128 + ((p \div 64) % 64),
                                  128 + (p % 64)>>)

(* hashlib.md5(data).hexdigest(): the digest is a function of the bytes    *)
(* alone; it is kept as the application of md5 to them, unevaluated.        *)
md5(data) == <<"md5", data>>

(* json.dumps(value, sort_keys=True).encode("utf-8"), unevaluated. *)
json_dumps(value) == <<"json", value>>

(* base64.b64encode(f"{job_id}:{status_id}:{input_hash}"), unevaluated. *)
signature_of(job_id, status_id, input_hash) ==
    <<"b64", job_id, status_id, input_hash>>

---------------------------------------------------------------------------
(* The job store *)

(* A slip: the record is filed under its status_id. *)
store_job_by_status_id(js, job_id, data) ==
    [k \in DOMAIN js \cup {data.status_id} |->
        IF k = data.status_id THEN data ELSE js[k]]

store_job(js, job_id, data) ==
    [k \in DOMAIN js \cup {job_id} |-> IF k = job_id THEN data ELSE js[k]]

get_job(js, job_id) == IF job_id \in DOMAIN js THEN js[job_id] ELSE NoJob

(* The descriptor of the two start_job fields. *)
get_input_schema_definition ==
    [input_data |-> <<
        [id |-> "identifier_from_purchaser",
         type |-> "string",
         name |-> "Job Identifier",
         data |-> [placeholder |-> "Enter job ID (ex: job123, user1-analysis)"],
         validations |-> <<[type |-> "required"]>>],
        [id |-> "html_file",
         type |-> "file",
         name |-> "Google Pay Activity File (.html)",
         data |-> [accept |-> ".html", maxSize |-> 5000000,
                   outputFormat |-> "base64"],
         validations |-> <<[type |-> "required"]>>]
    >>]

---------------------------------------------------------------------------
(* The handlers: (store, request, generated ids) -> [jobs, resp] *)

error(code, msg) == [http |-> code, status |-> "error", message |-> msg]

(* GET /input_schema *)
input_schema == [http |-> 200, body |-> get_input_schema_definition]

(* A slip: the new record is stored as already completed. *)
new_job_record_completed(job_id, status_id, html_content, identifier) ==
    [job_id |-> job_id,
     status |-> "completed",
     status_id |-> status_id,
     html |-> html_content,
     identifier |-> identifier,
     result |-> None]

(* A slip: the new record is stored as awaiting_input, payment taken as made. *)
new_job_record_awaiting_input(job_id, status_id, html_content, identifier) ==
    [job_id |-> job_id,
     status |-> "awaiting_input",
     status_id |-> status_id,
     html |-> html_content,
     identifier |-> identifier,
     result |-> None]

(* The record start_job stores for a new job. *)
new_job_record(job_id, status_id, html_content, identifier) ==
    [job_id |-> job_id,
     status |-> "awaiting_payment",
     status_id |-> status_id,
     html |-> html_content,
     identifier |-> identifier,
     result |-> None]

(* A slip: the hash is taken over the job_id and the content together. *)
start_job_response_keyed_hash(job_id, status_id, html_content, identifier) ==
    [http |-> 200,
     id |-> status_id,
     status |-> "success",
     job_id |-> job_id,
     identifierFromPurchaser |-> identifier,
     input_hash |-> md5(<<job_id>> \o utf8_encode(html_content, 1, <<>>))]

(* The body of a successful start_job answer. *)
start_job_response(job_id, status_id, html_content, identifier) ==
    [http |-> 200,
     id |-> status_id,
     status |-> "success",
     job_id |-> job_id,
     identifierFromPurchaser |-> identifier,
     input_hash |-> md5(utf8_encode(html_content, 1, <<>>))]

(* A slip: the record is stored before the file is decoded, so a refused *)
(* submission leaves a record behind.                                    *)
start_job_store_before_decode(js, req, job_id, status_id) ==
    IF ~req.is_json THEN
        [jobs |-> js, resp |-> error(415, "Content-Type must be application/json")]
    ELSE IF req.identifier \in {None, ""} THEN
        [jobs |-> js, resp |-> error(400, "identifier_from_purchaser required")]
    ELSE IF ~req.has_html_file THEN
        [jobs |-> js, resp |-> error(400, "html_file required in input_data")]
    ELSE
        LET raw == b64decode(req.html_file)
            text == utf8_decode(raw.bytes, 1, <<>>)
            stored == store_job(js, job_id,
                        new_job_record(job_id, status_id, text.chars,
                                       req.identifier))
        IN
        IF ~raw.ok \/ ~text.ok THEN
            [jobs |-> stored, resp |-> error(400, "Invalid base64 file")]
        ELSE
            [jobs |-> stored,
             resp |-> start_job_response(job_id, status_id, text.chars,
                                         req.identifier)]

(* POST /start_job.  job_id and status_id are the two uuid4 draws. *)
start_job(js, req, job_id, status_id) ==
    IF ~req.is_json THEN
        [jobs |-> js, resp |-> error(415, "Content-Type must be application/json")]
    ELSE IF req.identifier \in {None, ""} THEN
        [jobs |-> js, resp |-> error(400, "identifier_from_purchaser required")]
    ELSE IF ~req.has_html_file THEN
        [jobs |-> js, resp |-> error(400, "html_file required in input_data")]
    ELSE
        LET raw == b64decode(req.html_file)
            text == utf8_decode(raw.bytes, 1, <<>>)
        IN
        IF ~raw.ok \/ ~text.ok THEN
            [jobs |-> js, resp |-> error(400, "Invalid base64 file")]
        ELSE
            LET html_content == text.chars IN
            [jobs |-> store_job(js, job_id,
                        new_job_record(job_id, status_id, html_content,
                                       req.identifier)),
             resp |-> start_job_response(job_id, status_id, html_content,
                                         req.identifier)]

(* A slip: the schema is attached whatever the job's status. *)
status_response_always_schema(job, job_id, fresh_id) ==
    LET response == [http |-> 200,
                     id |-> fresh_id,
                     job_id |-> job_id,
                     status |-> job.status,
                     input_schema |-> get_input_schema_definition]
    IN
    IF job.result # None
    THEN ("result" :> job.result) @@ response
    ELSE response

(* A slip: the answer's id is the job's status_id, as in start_job. *)
status_response_echo_status_id(job, job_id, fresh_id) ==
    LET response == [http |-> 200,
                     id |-> job.status_id,
                     job_id |-> job_id,
                     status |-> job.status]
        with_schema ==
            IF job.status = "awaiting_input"
            THEN ("input_schema" :> get_input_schema_definition) @@ response
            ELSE response
    IN
    IF job.result # None
    THEN ("result" :> job.result) @@ with_schema
    ELSE with_schema

(* A slip: the result is attached whether or not there is one. *)
status_response_always_result(job, job_id, fresh_id) ==
    LET response == [http |-> 200,
                     id |-> fresh_id,
                     job_id |-> job_id,
                     status |-> job.status,
                     result |-> job.result]
    IN
    IF job.status = "awaiting_input"
    THEN ("input_schema" :> get_input_schema_definition) @@ response
    ELSE response

(* The body of a successful status answer for the record `job`. *)
status_response(job, job_id, fresh_id) ==
    LET response == [http |-> 200,
                     id |-> fresh_id,
                     job_id |-> job_id,
                     status |-> job.status]
        with_schema ==
            IF job.status = "awaiting_input"
            THEN ("input_schema" :> get_input_schema_definition) @@ response
            ELSE response
    IN
    IF job.result # None
    THEN ("result" :> job.result) @@ with_schema
    ELSE with_schema

(* A slip: the id drawn for the answer is written back as the job's *)
(* status_id.                                                        *)
status_rotating_id(js, req, fresh_id) ==
    IF req.job_id = NoId THEN
        [jobs |-> js, resp |-> error(400, "job_id required")]
    ELSE
        LET job == get_job(js, req.job_id) IN
        IF job = NoJob THEN
            [jobs |-> js, resp |-> error(404, "Job not found")]
        ELSE
            [jobs |-> [js EXCEPT ![req.job_id].status_id = fresh_id],
             resp |-> [http |-> 200,
                       id |-> fresh_id,
                       job_id |-> req.job_id,
                       status |-> job.status]]

(* GET /status?job_id=...   fresh_id is the uuid4 drawn for the "id" field. *)
(* The handler assigns to nothing: the store it leaves is the one it found. *)
status(js, req, fresh_id) ==
    IF req.job_id = NoId THEN
        [jobs |-> js, resp |-> error(400, "job_id required")]
    ELSE
        LET job == get_job(js, req.job_id) IN
        IF job = NoJob THEN
            [jobs |-> js, resp |-> error(404, "Job not found")]
        ELSE
            [jobs |-> js, resp |-> status_response(job, req.job_id, fresh_id)]

(* POST /provide_input, once every check has passed: the two assignments *)
(* to the stored record, then the hash and the placeholder signature.     *)
provide_input_apply(js, req) ==
    LET job == js[req.job_id]
        extra_input == IF req.input_data # None THEN req.input_data
                       ELSE req.input_groups
        job1 == ("extra_input" :> extra_input) @@ job
        job2 == [job1 EXCEPT !.status = "running"]
        input_hash == md5(json_dumps(extra_input))
    IN
    [jobs |-> [js EXCEPT ![req.job_id] = job2],
     resp |-> [http |-> 200,
               status |-> "success",
               input_hash |-> input_hash,
               signature |-> signature_of(req.job_id, req.status_id, input_hash)]]

(* A slip: the check of the job's status is missing. *)
provide_input_no_state_check(js, req) ==
    IF ~req.is_json THEN
        [jobs |-> js, resp |-> error(415, "Content-Type must be application/json")]
    ELSE IF req.job_id = NoId \/ req.status_id = NoId THEN
        [jobs |-> js, resp |-> error(400, "job_id and status_id are required")]
    ELSE
        LET job == get_job(js, req.job_id) IN
        IF job = NoJob THEN
            [jobs |-> js, resp |-> error(404, "Job not found")]
        ELSE IF job.status_id # NoId /\ job.status_id # req.status_id THEN
            [jobs |-> js,
             resp |-> error(400, "status_id does not match current job status")]
        ELSE IF (req.input_data = None /\ req.input_groups = None)
                \/ (req.input_data # None /\ req.input_groups # None) THEN
            [jobs |-> js,
             resp |-> error(400,
                "You must provide exactly one of input_data or input_groups")]
        ELSE provide_input_apply(js, req)

(* A slip: the status_id is compared before the job's status is looked at. *)
provide_input_id_check_first(js, req) ==
    IF ~req.is_json THEN
        [jobs |-> js, resp |-> error(415, "Content-Type must be application/json")]
    ELSE IF req.job_id = NoId \/ req.status_id = NoId THEN
        [jobs |-> js, resp |-> error(400, "job_id and status_id are required")]
    ELSE
        LET job == get_job(js, req.job_id) IN
        IF job = NoJob THEN
            [jobs |-> js, resp |-> error(404, "Job not found")]
        ELSE IF job.status_id # NoId /\ job.status_id # req.status_id THEN
            [jobs |-> js,
             resp |-> error(400, "status_id does not match current job status")]
        ELSE IF job.status # "awaiting_input" THEN
            [jobs |-> js, resp |-> error(400, "Job is not awaiting input")]
        ELSE IF (req.input_data = None /\ req.input_groups = None)
                \/ (req.input_data # None /\ req.input_groups # None) THEN
            [jobs |-> js,
             resp |-> error(400,
                "You must provide exactly one of input_data or input_groups")]
        ELSE provide_input_apply(js, req)

(* A slip: extra_input is assigned as soon as the job is found, before the *)
(* remaining checks.                                                        *)
provide_input_store_first(js, req) ==
    IF ~req.is_json THEN
        [jobs |-> js, resp |-> error(415, "Content-Type must be application/json")]
    ELSE IF req.job_id = NoId \/ req.status_id = NoId THEN
        [jobs |-> js, resp |-> error(400, "job_id and status_id are required")]
    ELSE
        LET job == get_job(js, req.job_id) IN
        IF job = NoJob THEN
            [jobs |-> js, resp |-> error(404, "Job not found")]
        ELSE
            LET extra_input == IF req.input_data # None THEN req.input_data
                               ELSE req.input_groups
                js1 == [js EXCEPT ![req.job_id] =
                            ("extra_input" :> extra_input) @@ job]
            IN
            IF job.status # "awaiting_input" THEN
                [jobs |-> js1, resp |-> error(400, "Job is not awaiting input")]
            ELSE IF job.status_id # NoId /\ job.status_id # req.status_id THEN
                [jobs |-> js1,
                 resp |-> error(400, "status_id does not match current job status")]
            ELSE IF (req.input_data = None /\ req.input_groups = None)
                    \/ (req.input_data # None /\ req.input_groups # None) THEN
                [jobs |-> js1,
                 resp |-> error(400,
                    "You must provide exactly one of input_data or input_groups")]
            ELSE provide_input_apply(js, req)

(* A slip: the check that the job exists is missing, so job["status"] on  *)
(* None raises and the handler's except clause answers 500.                *)
provide_input_no_lookup_check(js, req) ==
    IF ~req.is_json THEN
        [jobs |-> js, resp |-> error(415, "Content-Type must be application/json")]
    ELSE IF req.job_id = NoId \/ req.status_id = NoId THEN
        [jobs |-> js, resp |-> error(400, "job_id and status_id are required")]
    ELSE
        LET job == get_job(js, req.job_id) IN
        IF job = NoJob THEN
            [jobs |-> js,
             resp |-> error(500, "'NoneType' object is not subscriptable")]
        ELSE IF job.status # "awaiting_input" THEN
            [jobs |-> js, resp |-> error(400, "Job is not awaiting input")]
        ELSE IF job.status_id # NoId /\ job.status_id # req.status_id THEN
            [jobs |-> js,
             resp |-> error(400, "status_id does not match current job status")]
        ELSE IF (req.input_data = None /\ req.input_groups = None)
                \/ (req.input_data # None /\ req.input_groups # None) THEN
            [jobs |-> js,
             resp |-> error(400,
                "You must provide exactly one of input_data or input_groups")]
        ELSE provide_input_apply(js, req)

(* A slip: the inputs are checked before the job is looked up. *)
provide_input_shape_check_first(js, req) ==
    IF ~req.is_json THEN
        [jobs |-> js, resp |-> error(415, "Content-Type must be application/json")]
    ELSE IF req.job_id = NoId \/ req.status_id = NoId THEN
        [jobs |-> js, resp |-> error(400, "job_id and status_id are required")]
    ELSE IF (req.input_data = None /\ req.input_groups = None)
            \/ (req.input_data # None /\ req.input_groups # None) THEN
        [jobs |-> js,
         resp |-> error(400,
            "You must provide exactly one of input_data or input_groups")]
    ELSE
        LET job == get_job(js, req.job_id) IN
        IF job = NoJob THEN
            [jobs |-> js, resp |-> error(404, "Job not found")]
        ELSE IF job.status # "awaiting_input" THEN
            [jobs |-> js, resp |-> error(400, "Job is not awaiting input")]
        ELSE IF job.status_id # NoId /\ job.status_id # req.status_id THEN
            [jobs |-> js,
             resp |-> error(400, "status_id does not match current job status")]
        ELSE provide_input_apply(js, req)

(* POST /provide_input *)
provide_input(js, req) ==
    IF ~req.is_json THEN
        [jobs |-> js, resp |-> error(415, "Content-Type must be application/json")]
    ELSE IF req.job_id = NoId \/ req.status_id = NoId THEN
        [jobs |-> js, resp |-> error(400, "job_id and status_id are required")]
    ELSE
        LET job == get_job(js, req.job_id) IN
        IF job = NoJob THEN
            [jobs |-> js, resp |-> error(404, "Job not found")]
        ELSE IF job.status # "awaiting_input" THEN
            [jobs |-> js, resp |-> error(400, "Job is not awaiting input")]
        ELSE IF job.status_id # NoId /\ job.status_id # req.status_id THEN
            [jobs |-> js,
             resp |-> error(400, "status_id does not match current job status")]
        ELSE IF (req.input_data = None /\ req.input_groups = None)
                \/ (req.input_data # None /\ req.input_groups # None) THEN
            [jobs |-> js,
             resp |-> error(400,
                "You must provide exactly one of input_data or input_groups")]
        ELSE provide_input_apply(js, req)

---------------------------------------------------------------------------
(* Requests *)

(* html_file samples, as base64 symbols. *)
B64_hi        == <<26, 6, 36, Pad>>       \* "aGk="  -> "hi"
B64_eacute    == <<48, 58, 36, Pad>>      \* "w6k="  -> C3 A9, one 2-byte character
B64_unpadded  == <<26, 6, 36>>            \* "aGk"   -> Incorrect padding
B64_not_utf8  == <<63, 48, Pad, Pad>>     \* "/w=="  -> FF, not UTF-8

HtmlFiles == {B64_hi, B64_eacute, B64_unpadded, B64_not_utf8}

Identifiers == {None, "", "job1"}

StartJobRequests ==
    {[op |-> "start_job", is_json |-> FALSE, identifier |-> None,
      has_html_file |-> FALSE, html_file |-> <<>>]}
    \cup [op : {"start_job"}, is_json : {TRUE}, identifier : Identifiers,
          has_html_file : {FALSE}, html_file : {<<>>}]
    \cup [op : {"start_job"}, is_json : {TRUE}, identifier : Identifiers,
          has_html_file : {TRUE}, html_file : HtmlFiles]

StatusRequests == [op : {"status"}, job_id : JobIds \cup {NoId}]

InputValues == {None, "x"}

ProvideInputRequests ==
    {[op |-> "provide_input", is_json |-> FALSE, job_id |-> NoId,
      status_id |-> NoId, input_data |-> None, input_groups |-> None]}
    \cup [op : {"provide_input"}, is_json : {TRUE},
          job_id : JobIds \cup {NoId}, status_id : StatusIds \cup {NoId},
          input_data : InputValues, input_groups : InputValues]

---------------------------------------------------------------------------
(* The state machine *)

(* The two threads of the server that take provide_input requests. *)
Threads == {"t1", "t2"}

(* A thread with no request: pc is the line of provide_input it is at,    *)
(* ref the record object its local variable job points to (records are    *)
(* told apart by their status_id, which is unique and never assigned      *)
(* again), wrote whether it has executed line 340.                        *)
IdleThread ==
    [pc |-> "idle", req |-> [op |-> "none"], ref |-> NoId,
     resp |-> [http |-> 0], wrote |-> FALSE]

(* objs: every record object start_job has built, by status_id; the store *)
(* holds one of them under each job_id, a thread may still hold one that  *)
(* start_job has replaced in the store.                                   *)
NoRequests ==
    [th |-> [t \in Threads |-> IdleThread], objs |-> <<>>, overlapped |-> FALSE]

Init ==
    /\ jobs = <<>>
    /\ conc = NoRequests
    /\ lastReq = [op |-> "none"]
    /\ lastResp = [http |-> 0]
    /\ returned = {}
    /\ issued = {}
    /\ everRunning = {}

(* The history variables after a step that leaves the store js and answers resp. *)
History(req, js, resp) ==
    /\ returned' = IF req.op = "start_job" /\ resp.http = 200
                   THEN returned \cup {resp.job_id} ELSE returned
    /\ issued' = IF req.op = "start_job" /\ resp.http = 200
                 THEN issued \cup {resp.id} ELSE issued
    /\ everRunning' = everRunning
                      \cup {j \in DOMAIN js : js[j].status = "running"}

(* The uuid4 draws of start_job (lines 194-195) are made once the request *)
(* has passed validation, and the one of status (line 258) once the job   *)
(* is found: a request that is refused draws nothing.                      *)
StartJob ==
    \E req \in StartJobRequests :
        LET drawn == start_job(jobs, req, NoId, NoId).resp.http = 200 IN
        \E job_id \in (IF drawn THEN JobIds ELSE {NoId}),
           status_id \in (IF drawn THEN StatusIds \ issued ELSE {NoId}) :
            LET r == start_job(jobs, req, job_id, status_id) IN
            /\ jobs' = r.jobs
            /\ lastReq' = req
            /\ lastResp' = r.resp
            /\ History(req, r.jobs, r.resp)
            /\ UNCHANGED conc

Status ==
    \E req \in StatusRequests :
        LET drawn == status(jobs, req, NoId).resp.http = 200 IN
        \E fresh_id \in (IF drawn THEN ResponseIds ELSE {NoId}) :
            LET r == status(jobs, req, fresh_id) IN
            /\ jobs' = r.jobs
            /\ lastReq' = req
            /\ lastResp' = r.resp
            /\ History(req, r.jobs, r.resp)
            /\ UNCHANGED conc

ProvideInput ==
    \E req \in ProvideInputRequests :
        LET r == provide_input(jobs, req) IN
        /\ jobs' = r.jobs
        /\ lastReq' = req
        /\ lastResp' = r.resp
        /\ History(req, r.jobs, r.resp)
        /\ UNCHANGED conc

InputSchema ==
    /\ lastReq' = [op |-> "input_schema"]
    /\ lastResp' = input_schema
    /\ History([op |-> "input_schema"], jobs, input_schema)
    /\ UNCHANGED <<jobs, conc>>

Next == StartJob \/ Status \/ ProvideInput \/ InputSchema

Spec == Init /\ [][Next]_vars

---------------------------------------------------------------------------
(* provide_input on the threads of the server.  app.run serves each       *)
(* request on a thread of its own, and the handler takes no lock: between *)
(* two lines that touch the shared record another thread, or a start_job, *)
(* may run.  A thread here executes provide_input one such line at a      *)
(* time: 309 (get_job), 317 (job["status"]), 324 (job.get("status_id"),   *)
(* then the check of the inputs, which is local), 340 and 341 (the two    *)
(* assignments; the hash and the signature after them are local).         *)

(* The store after the record object ref has been changed to rec: the job *)
(* ids that hold this object see the change.                              *)
write_through(js, ref, rec) ==
    [j \in DOMAIN js |-> IF js[j].status_id = ref THEN rec ELSE js[j]]

(* Lines 291-307: the checks on the request alone. *)
provide_input_receive(th, req) ==
    IF ~req.is_json THEN
        [th EXCEPT !.pc = "done", !.req = req,
            !.resp = error(415, "Content-Type must be application/json")]
    ELSE IF req.job_id = NoId \/ req.status_id = NoId THEN
        [th EXCEPT !.pc = "done", !.req = req,
            !.resp = error(400, "job_id and status_id are required")]
    ELSE [th EXCEPT !.pc = "L309", !.req = req]

(* The next line of provide_input on a thread. *)
provide_input_step(js, objs, th) ==
    LET req == th.req
        same == [jobs |-> js, objs |-> objs]
        answer(resp) == same @@ [th |-> [th EXCEPT !.pc = "done", !.resp = resp]]
        goto(pc) == same @@ [th |-> [th EXCEPT !.pc = pc]]
    IN
    IF th.pc = "L309" THEN
        LET job == get_job(js, req.job_id) IN
        IF job = NoJob THEN answer(error(404, "Job not found"))
        ELSE same @@ [th |-> [th EXCEPT !.pc = "L317", !.ref = job.status_id]]
    ELSE IF th.pc = "L317" THEN
        IF objs[th.ref].status # "awaiting_input"
        THEN answer(error(400, "Job is not awaiting input"))
        ELSE goto("L324")
    ELSE IF th.pc = "L324" THEN
        IF objs[th.ref].status_id # NoId /\ objs[th.ref].status_id # req.status_id
        THEN answer(error(400, "status_id does not match current job status"))
        ELSE IF (req.input_data = None /\ req.input_groups = None)
                \/ (req.input_data # None /\ req.input_groups # None)
        THEN answer(error(400,
                "You must provide exactly one of input_data or input_groups"))
        ELSE goto("L340")
    ELSE IF th.pc = "L340" THEN
        LET extra_input == IF req.input_data # None THEN req.input_data
                           ELSE req.input_groups
            rec == ("extra_input" :> extra_input) @@ objs[th.ref]
        IN [jobs |-> write_through(js, th.ref, rec),
            objs |-> [objs EXCEPT ![th.ref] = rec],
            th |-> [th EXCEPT !.pc = "L341", !.wrote = TRUE]]
    ELSE \* L341
        LET extra_input == IF req.input_data # None THEN req.input_data
                           ELSE req.input_groups
            rec == [objs[th.ref] EXCEPT !.status = "running"]
            input_hash == md5(json_dumps(extra_input))
        IN [jobs |-> write_through(js, th.ref, rec),
            objs |-> [objs EXCEPT ![th.ref] = rec],
            th |-> [th EXCEPT !.pc = "done",
                       !.resp = [http |-> 200,
                                 status |-> "success",
                                 input_hash |-> input_hash,
                                 signature |-> signature_of(req.job_id,
                                                  req.status_id, input_hash)]]]

(* The requests the threads are sent: for any job_id, with any status_id *)
(* and one input.                                                         *)
ConcInputRequests ==
    [op : {"provide_input"}, is_json : {TRUE}, job_id : JobIds,
     status_id : StatusIds, input_data : {"x"}, input_groups : {None}]

(* The submissions sent while the threads run: valid ones, which create *)
(* the jobs the threads' requests are for.                                *)
ConcStartJobRequests ==
    {req \in StartJobRequests :
        req.is_json /\ req.identifier = "job1" /\ req.html_file = B64_hi}

(* POST /start_job: its one access to the store is the assignment of     *)
(* store_job, so it is one step among the threads' steps.                 *)
ConcStartJob ==
    \E req \in ConcStartJobRequests :
        LET drawn == start_job(jobs, req, NoId, NoId).resp.http = 200 IN
        \E job_id \in (IF drawn THEN JobIds ELSE {NoId}),
           status_id \in (IF drawn THEN StatusIds \ issued ELSE {NoId}) :
            LET r == start_job(jobs, req, job_id, status_id) IN
            /\ jobs' = r.jobs
            /\ lastReq' = req
            /\ lastResp' = r.resp
            /\ History(req, r.jobs, r.resp)
            /\ conc' = IF r.resp.http = 200
                       THEN [conc EXCEPT
                                !.objs = (status_id :> r.jobs[job_id]) @@ @]
                       ELSE conc

(* A thread takes a request; the requests overlap if the other thread is *)
(* in the middle of one.                                                  *)
ConcReceive ==
    \E t \in Threads, req \in ConcInputRequests :
        /\ conc.th[t].pc = "idle"
        /\ conc' = [conc EXCEPT
                !.th[t] = provide_input_receive(@, req),
                !.overlapped = @ \/ \E u \in Threads \ {t} :
                                      conc.th[u].pc \notin {"idle", "done"}]
        /\ UNCHANGED <<jobs, lastReq, lastResp, returned, issued, everRunning>>

(* A thread executes its next line. *)
ConcStep ==
    \E t \in Threads :
        /\ conc.th[t].pc \notin {"idle", "done"}
        /\ LET r == provide_input_step(jobs, conc.objs, conc.th[t]) IN
           /\ jobs' = r.jobs
           /\ conc' = [conc EXCEPT !.th[t] = r.th, !.objs = r.objs]
           /\ everRunning' = everRunning
                  \cup {j \in DOMAIN r.jobs : r.jobs[j].status = "running"}
        /\ UNCHANGED <<lastReq, lastResp, returned, issued>>

NextConc == ConcStartJob \/ ConcReceive \/ ConcStep

SpecConc == Init /\ [][NextConc]_vars

---------------------------------------------------------------------------
(* The error classes of the protocol, read off a response: 404 is NotFound, *)
(* 500 InternalError, and the 400/415 answers are told apart by message.    *)

ErrorClass(resp) ==
    IF resp.http = 200 THEN "none"
    ELSE IF resp.http = 404 THEN "NotFound"
    ELSE IF resp.http = 500 THEN "InternalError"
    ELSE IF resp.message = "Job is not awaiting input" THEN "InvalidTransition"
    ELSE IF resp.message = "status_id does not match current job status"
         THEN "Unauthorized"
    ELSE "ValidationError"

Statuses ==
    {"awaiting_payment", "awaiting_input", "running", "completed", "failed"}

(* Position along awaiting_payment -> awaiting_input -> running -> {completed, failed}. *)
Rank(s) ==
    IF s = "awaiting_payment" THEN 0
    ELSE IF s = "awaiting_input" THEN 1
    ELSE IF s = "running" THEN 2
    ELSE 3

(* A start_job request that is JSON, names a purchaser and carries an *)
(* html_file that decodes.                                             *)
ValidSubmission(req) ==
    /\ req.op = "start_job"
    /\ req.is_json
    /\ req.identifier \notin {None, ""}
    /\ req.has_html_file
    /\ b64decode(req.html_file).ok
    /\ utf8_decode(b64decode(req.html_file).bytes, 1, <<>>).ok

(* A provide_input request that is JSON and carries a job_id and a status_id. *)
WellFormedInput(req) ==
    /\ req.op = "provide_input"
    /\ req.is_json
    /\ req.job_id # NoId
    /\ req.status_id # NoId

ExactlyOneInput(req) ==
    (req.input_data = None) # (req.input_groups = None)

StatusRequest(job_id) == [op |-> "status", job_id |-> job_id]

---------------------------------------------------------------------------
(* C1: in the state a successful start_job of a valid submission leaves,  *)
(* status for the returned job_id answers 200 with status                 *)
(* awaiting_payment (so not completed), whatever id it draws.             *)
C1_InitialStatus ==
    (ValidSubmission(lastReq) /\ lastResp.http = 200) =>
        \A fresh_id \in ResponseIds :
            LET answer == status(jobs, StatusRequest(lastResp.job_id), fresh_id).resp
            IN /\ answer.http = 200
               /\ answer.job_id = lastResp.job_id
               /\ answer.status = "awaiting_payment"
               /\ answer.status # "completed"

(* A valid submission has just succeeded while another job is stored, and *)
(* status for the new job_id answers awaiting_payment.                     *)
C1_Witness ==
    /\ ValidSubmission(lastReq)
    /\ lastResp.http = 200
    /\ Cardinality(DOMAIN jobs) >= 2
    /\ status(jobs, StatusRequest(lastResp.job_id), 1).resp.status
           = "awaiting_payment"

(* C2: the status stored for a job_id only moves forward along           *)
(* awaiting_payment -> awaiting_input -> running -> {completed, failed}:  *)
(* a step that changes it raises its rank (so it leaves no terminal       *)
(* status and never goes back), and a stored status is completed only for *)
(* a job_id that has been running.                                        *)
C2_Step ==
    /\ \A j \in DOMAIN jobs \cap DOMAIN jobs' :
          jobs'[j].status # jobs[j].status =>
              Rank(jobs[j].status) < Rank(jobs'[j].status)
    /\ \A j \in DOMAIN jobs' :
          /\ jobs'[j].status \in Statuses
          /\ jobs'[j].status = "completed" => j \in everRunning

C2_Monotonic == [][C2_Step]_vars

(* provide_input with the job's own ids and one input has just been tried *)
(* on a stored job, after start_job and status calls.                     *)
C2_Witness ==
    /\ WellFormedInput(lastReq)
    /\ ExactlyOneInput(lastReq)
    /\ lastReq.job_id \in DOMAIN jobs
    /\ jobs[lastReq.job_id].status_id = lastReq.status_id
    /\ jobs[lastReq.job_id].status = "awaiting_payment"
    /\ Cardinality(DOMAIN jobs) >= 2

---------------------------------------------------------------------------
(* Requests of provide_input, as the claims single them out.  js is the *)
(* store the request meets.                                              *)

KnownJob(js, req) == WellFormedInput(req) /\ req.job_id \in DOMAIN js

MatchingId(js, req) ==
    KnownJob(js, req) /\ js[req.job_id].status_id = req.status_id

MismatchingId(js, req) ==
    KnownJob(js, req) /\ js[req.job_id].status_id # req.status_id

(* The error class of the first precondition of provide_input that the   *)
(* request violates, in the order: content type and ids, job known, job  *)
(* awaiting_input, status_id matching, exactly one input.                *)
FirstViolated(js, req) ==
    IF ~req.is_json \/ req.job_id = NoId \/ req.status_id = NoId
        THEN "ValidationError"
    ELSE IF req.job_id \notin DOMAIN js THEN "NotFound"
    ELSE IF js[req.job_id].status # "awaiting_input" THEN "InvalidTransition"
    ELSE IF js[req.job_id].status_id # req.status_id THEN "Unauthorized"
    ELSE IF ~ExactlyOneInput(req) THEN "ValidationError"
    ELSE "none"

(* Step j's record gets an extra_input it did not hold before. *)
WritesExtraInput(j) ==
    /\ j \in DOMAIN jobs'
    /\ "extra_input" \in DOMAIN jobs'[j]
    /\ \/ j \notin DOMAIN jobs
       \/ "extra_input" \notin DOMAIN jobs[j]
       \/ jobs[j].extra_input # jobs'[j].extra_input

---------------------------------------------------------------------------
(* C4, as claimed: a provide_input for a known job with a status_id other *)
(* than the stored one is answered Unauthorized and changes nothing.      *)
C4_OriginalStep ==
    MismatchingId(jobs, lastReq') =>
        /\ ErrorClass(lastResp') = "Unauthorized"
        /\ jobs' = jobs

C4_Original == [][C4_OriginalStep]_vars

(* C4, amended: such a request is refused and leaves every record as it  *)
(* was, so it never writes extra_input; the answer is InvalidTransition  *)
(* when the job is not awaiting_input (that check comes first) and       *)
(* Unauthorized when it is.                                               *)
C4_AmendedStep ==
    MismatchingId(jobs, lastReq') =>
        /\ lastResp'.status = "error"
        /\ ErrorClass(lastResp') =
              (IF jobs[lastReq'.job_id].status = "awaiting_input"
               THEN "Unauthorized" ELSE "InvalidTransition")
        /\ jobs' = jobs
        /\ \A j \in DOMAIN jobs' : ~WritesExtraInput(j)

C4_Mismatch == [][C4_AmendedStep]_vars

(* A request with one input and another job's status_id has been refused *)
(* for a stored job.                                                      *)
C4_Witness ==
    /\ MismatchingId(jobs, lastReq)
    /\ ExactlyOneInput(lastReq)
    /\ \E j \in DOMAIN jobs : jobs[j].status_id = lastReq.status_id
    /\ lastResp.http = 400
    /\ ErrorClass(lastResp) = "InvalidTransition"

(* C5, as claimed: a provide_input for a known job with both inputs or   *)
(* neither is answered ValidationError and changes nothing.               *)
C5_OriginalStep ==
    (KnownJob(jobs, lastReq') /\ ~ExactlyOneInput(lastReq')) =>
        /\ ErrorClass(lastResp') = "ValidationError"
        /\ jobs' = jobs

C5_Original == [][C5_OriginalStep]_vars

(* C5, amended: a JSON provide_input with both inputs or neither is       *)
(* refused and changes no record, whatever the job's status; its error is *)
(* that of the first precondition it violates, which is ValidationError   *)
(* only if the ids are missing or every earlier check passes.             *)
C5_AmendedStep ==
    (lastReq'.op = "provide_input" /\ lastReq'.is_json
     /\ ~ExactlyOneInput(lastReq')) =>
        /\ lastResp'.status = "error"
        /\ lastResp'.http # 200
        /\ ErrorClass(lastResp') = FirstViolated(jobs, lastReq')
        /\ jobs' = jobs

C5_BothOrNeither == [][C5_AmendedStep]_vars

(* Both inputs have been sent, with the job's own ids, for a stored job,  *)
(* and the answer was not ValidationError.                                *)
C5_Witness ==
    /\ MatchingId(jobs, lastReq)
    /\ lastReq.input_data # None
    /\ lastReq.input_groups # None
    /\ lastResp.status = "error"
    /\ ErrorClass(lastResp) = "InvalidTransition"
    /\ "extra_input" \notin DOMAIN jobs[lastReq.job_id]

(* C6: a provide_input (carrying a job_id and a status_id) for a known    *)
(* job whose status is not awaiting_input is answered InvalidTransition   *)
(* and leaves the store as it was; and no step writes a job's extra_input *)
(* unless that job's status was awaiting_input.                           *)
C6_Step ==
    /\ (KnownJob(jobs, lastReq')
        /\ jobs[lastReq'.job_id].status # "awaiting_input") =>
            /\ ErrorClass(lastResp') = "InvalidTransition"
            /\ jobs' = jobs
    /\ \A j \in DOMAIN jobs' :
          WritesExtraInput(j) =>
              (j \in DOMAIN jobs /\ jobs[j].status = "awaiting_input")

C6_OnlyWhileAwaitingInput == [][C6_Step]_vars

(* A request that passes every other check (own ids, one input) has been  *)
(* refused for a job that is awaiting_payment.                            *)
C6_Witness ==
    /\ MatchingId(jobs, lastReq)
    /\ ExactlyOneInput(lastReq)
    /\ jobs[lastReq.job_id].status = "awaiting_payment"
    /\ ErrorClass(lastResp) = "InvalidTransition"
    /\ "extra_input" \notin DOMAIN jobs[lastReq.job_id]

(* C7, as claimed: the job is awaiting_input once start_job has created   *)
(* it, and a provide_input with its job_id, its status_id and exactly one *)
(* input succeeds, stores extra_input and sets the status to running.     *)
C7_Original ==
    /\ (ValidSubmission(lastReq) /\ lastResp.http = 200) =>
          jobs[lastResp.job_id].status = "awaiting_input"
    /\ (MatchingId(jobs, lastReq) /\ ExactlyOneInput(lastReq)) =>
          /\ lastResp.http = 200
          /\ jobs[lastReq.job_id].status = "running"
          /\ "extra_input" \in DOMAIN jobs[lastReq.job_id]

(* C7, amended: a job created by start_job is stored as awaiting_payment  *)
(* and no public operation moves it: it never reaches awaiting_input or   *)
(* running, and a provide_input with its job_id, its status_id and        *)
(* exactly one input is answered InvalidTransition, stores no extra_input *)
(* and leaves the status awaiting_payment.                                *)
C7_StuckAwaitingPayment ==
    /\ \A j \in DOMAIN jobs :
          /\ jobs[j].status = "awaiting_payment"
          /\ "extra_input" \notin DOMAIN jobs[j]
    /\ everRunning = {}
    /\ (MatchingId(jobs, lastReq) /\ ExactlyOneInput(lastReq)) =>
          /\ lastResp.http = 400
          /\ ErrorClass(lastResp) = "InvalidTransition"

(* provide_input with input_data alone and the job's own ids has been     *)
(* answered 400 for a job start_job returned.                             *)
C7_Witness ==
    /\ MatchingId(jobs, lastReq)
    /\ lastReq.input_data # None
    /\ lastReq.input_groups = None
    /\ lastReq.job_id \in returned
    /\ lastResp.http = 400
    /\ jobs[lastReq.job_id].status = "awaiting_payment"

(* C8: a status request, or a provide_input carrying a status_id, for a   *)
(* job_id no successful start_job has returned is answered NotFound, and  *)
(* the store holds no record under a job_id that was not returned.        *)
C8_UnknownJob ==
    /\ DOMAIN jobs \subseteq returned
    /\ (lastReq.op = "status" /\ lastReq.job_id # NoId
        /\ lastReq.job_id \notin returned) =>
            (lastResp.http = 404 /\ ErrorClass(lastResp) = "NotFound")
    /\ (WellFormedInput(lastReq) /\ lastReq.job_id \notin returned) =>
            (lastResp.http = 404 /\ ErrorClass(lastResp) = "NotFound")

(* With another job stored, provide_input for a job_id never returned has *)
(* been answered 404, and status for it answers 404 too.                  *)
C8_Witness ==
    /\ WellFormedInput(lastReq)
    /\ ExactlyOneInput(lastReq)
    /\ lastReq.job_id \notin returned
    /\ returned # {}
    /\ lastResp.http = 404
    /\ status(jobs, StatusRequest(lastReq.job_id), NoId).resp.http = 404
    /\ lastReq.job_id \notin DOMAIN jobs

(* C9: a status step leaves the job store exactly as it found it, for a   *)
(* known job_id, an unknown one or none.                                  *)
C9_Step == lastReq'.op = "status" => jobs' = jobs

C9_StatusReadOnly == [][C9_Step]_vars

(* status has answered 200 for one of two stored jobs. *)
C9_Witness ==
    /\ lastReq.op = "status"
    /\ lastResp.http = 200
    /\ lastReq.job_id \in DOMAIN jobs
    /\ Cardinality(DOMAIN jobs) >= 2

(* C10: a 200 answer of status carries input_schema exactly when the      *)
(* job's status is awaiting_input, and the schema it carries is the body  *)
(* input_schema answers with.                                             *)
C10_SchemaIffAwaitingInput ==
    (lastReq.op = "status" /\ lastResp.http = 200) =>
        /\ lastResp.status = jobs[lastReq.job_id].status
        /\ ("input_schema" \in DOMAIN lastResp)
              <=> (jobs[lastReq.job_id].status = "awaiting_input")
        /\ ("input_schema" \in DOMAIN lastResp) =>
              lastResp.input_schema = input_schema.body

(* status has answered 200 for a job that is not awaiting_input, and the  *)
(* answer carries no schema.                                              *)
C10_Witness ==
    /\ lastReq.op = "status"
    /\ lastResp.http = 200
    /\ lastResp.status # "awaiting_input"
    /\ "input_schema" \notin DOMAIN lastResp

---------------------------------------------------------------------------
(* C11: a successful start_job returns a job_id and a status_id that no   *)
(* earlier successful start_job returned, and leaves every record stored  *)
(* before it in place.  The status_id is a whole uuid4 draw and is new;   *)
(* the job_id is the first 8 hex digits of a draw, and store_job writes   *)
(* under it without looking: a second draw with the same 8 digits returns *)
(* a job_id already returned and replaces the earlier job's record.       *)
C11_Step ==
    (lastReq'.op = "start_job" /\ lastResp'.http = 200) =>
        /\ lastResp'.job_id \notin returned
        /\ lastResp'.id \notin issued
        /\ \A j \in DOMAIN jobs : j \in DOMAIN jobs' /\ jobs'[j] = jobs[j]

C11_GloballyUnique == [][C11_Step]_vars

---------------------------------------------------------------------------
(* C12.  Both threads have answered requests that overlapped, for the     *)
(* same job_id, each with the status_id of the record it found there      *)
(* (the same record for both) and with one input.                         *)
C12_Case ==
    /\ conc.overlapped
    /\ \A t \in Threads :
          /\ conc.th[t].pc = "done"
          /\ ExactlyOneInput(conc.th[t].req)
          /\ conc.th[t].ref # NoId
          /\ conc.th[t].req.status_id = conc.th[t].ref
    /\ \A t, u \in Threads :
          /\ conc.th[t].req.job_id = conc.th[u].req.job_id
          /\ conc.th[t].ref = conc.th[u].ref

Succeeded == {t \in Threads : conc.th[t].resp.http = 200}

Wrote == {t \in Threads : conc.th[t].wrote}

(* C12, as claimed: of two such requests one succeeds, extra_input is     *)
(* written exactly once, and the other fails with InvalidTransition.      *)
C12_Original ==
    C12_Case =>
        /\ Cardinality(Succeeded) <= 1
        /\ Cardinality(Wrote) = 1
        /\ \A t \in Threads \ Succeeded :
              ErrorClass(conc.th[t].resp) = "InvalidTransition"

(* C12, as the code has it: of two such requests at most one succeeds and *)
(* extra_input is written at most once, because neither succeeds: the     *)
(* record is awaiting_payment, each request fails with InvalidTransition  *)
(* at line 317, and the record keeps its status and gets no extra_input.  *)
C12_NeitherSucceeds ==
    C12_Case =>
        /\ Cardinality(Succeeded) <= 1
        /\ Cardinality(Wrote) <= 1
        /\ Succeeded = {}
        /\ Wrote = {}
        /\ \A t \in Threads :
              /\ ErrorClass(conc.th[t].resp) = "InvalidTransition"
              /\ conc.objs[conc.th[t].ref].status = "awaiting_payment"
              /\ "extra_input" \notin DOMAIN conc.objs[conc.th[t].ref]

(* Two overlapping requests with the job's status_id have both been       *)
(* refused with InvalidTransition, and the job is still in the store.     *)
C12_Witness ==
    /\ C12_Case
    /\ \A t \in Threads :
          /\ ErrorClass(conc.th[t].resp) = "InvalidTransition"
          /\ conc.th[t].req.job_id \in DOMAIN jobs
          /\ jobs[conc.th[t].req.job_id].status_id = conc.th[t].ref

---------------------------------------------------------------------------
(* C14: a stored result is other than None only in a record whose status *)
(* is completed or failed; a 200 answer of status has a result field      *)
(* exactly when the stored result is not None, and then it is the stored  *)
(* result -- for the record as it is stored, and for the same record with *)
(* a result put in it.                                                    *)
C14_ResultOnlyWhenFinished ==
    /\ \A j \in DOMAIN jobs :
          jobs[j].result # None => jobs[j].status \in {"completed", "failed"}
    /\ (lastReq.op = "status" /\ lastResp.http = 200) =>
          /\ ("result" \in DOMAIN lastResp)
                <=> (jobs[lastReq.job_id].result # None)
          /\ ("result" \in DOMAIN lastResp) =>
                lastResp.result = jobs[lastReq.job_id].result
    /\ \A j \in DOMAIN jobs : \A res \in {None, "report"} :
          LET answer == status_response([jobs[j] EXCEPT !.result = res], j, NoId)
          IN /\ ("result" \in DOMAIN answer) <=> (res # None)
             /\ ("result" \in DOMAIN answer) => answer.result = res

(* status has answered 200 for a stored job whose result is None, and the *)
(* answer has no result field.                                            *)
C14_Witness ==
    /\ lastReq.op = "status"
    /\ lastResp.http = 200
    /\ jobs[lastReq.job_id].result = None
    /\ "result" \notin DOMAIN lastResp
    /\ Cardinality(DOMAIN jobs) >= 2

---------------------------------------------------------------------------
(* C15: a start_job step whose request is not a valid submission (not     *)
(* JSON, identifier_from_purchaser missing or empty, no html_file, or an  *)
(* html_file that does not decode) answers with an error and leaves the   *)
(* job store as it was.                                                   *)
C15_Step ==
    (lastReq'.op = "start_job" /\ ~ValidSubmission(lastReq')) =>
        /\ lastResp'.status = "error"
        /\ lastResp'.http \in {400, 415}
        /\ jobs' = jobs

C15_RefusedLeavesStore == [][C15_Step]_vars

(* A submission whose html_file does not decode has been refused while a *)
(* job is stored.                                                        *)
C15_Witness ==
    /\ lastReq.op = "start_job"
    /\ lastReq.is_json
    /\ lastReq.identifier = "job1"
    /\ lastReq.has_html_file
    /\ ~ValidSubmission(lastReq)
    /\ lastResp.http = 400
    /\ lastResp.message = "Invalid base64 file"
    /\ jobs # <<>>

---------------------------------------------------------------------------
(* C16: the input_hash of a successful start_job is the md5 of the bytes  *)
(* its html_file decodes to, and the same html_file gives the same        *)
(* input_hash with any purchaser identifier, any job_id and status_id     *)
(* drawn, and any store.                                                  *)
C16_HashOfContentOnly ==
    (ValidSubmission(lastReq) /\ lastResp.http = 200) =>
        /\ lastResp.input_hash = md5(b64decode(lastReq.html_file).bytes)
        /\ \A identifier \in {"job1", "job2"}, job_id \in JobIds,
              status_id \in StatusIds, js \in {jobs, <<>>} :
              LET other == start_job(js, [lastReq EXCEPT !.identifier = identifier],
                                     job_id, status_id).resp
              IN /\ other.http = 200
                 /\ other.input_hash = lastResp.input_hash

(* A second job has been created from an html_file holding a two-byte    *)
(* character, and its input_hash is the md5 of the bytes C3 A9.           *)
C16_Witness ==
    /\ ValidSubmission(lastReq)
    /\ lastResp.http = 200
    /\ lastReq.html_file = B64_eacute
    /\ lastResp.input_hash = md5(<<195, 169>>)
    /\ Cardinality(DOMAIN jobs) >= 2

---------------------------------------------------------------------------
(* C18: no step changes the job_id, status_id, html or identifier of a    *)
(* job that is in the store, or drops the job.  provide_input and status  *)
(* assign to none of these fields, but a start_job that draws a job_id    *)
(* already in the store (C11) replaces the record stored under it, and    *)
(* with it the job's status_id, html and identifier.                      *)
C18_Step ==
    \A j \in DOMAIN jobs :
        /\ j \in DOMAIN jobs'
        /\ jobs'[j].job_id = jobs[j].job_id
        /\ jobs'[j].status_id = jobs[j].status_id
        /\ jobs'[j].html = jobs[j].html
        /\ jobs'[j].identifier = jobs[j].identifier

C18_CreationFieldsImmutable == [][C18_Step]_vars

---------------------------------------------------------------------------
(* C19: a provide_input step answers with the error of the first          *)
(* precondition its request violates, in the order: ids present           *)
(* (ValidationError), job known (NotFound), job awaiting_input            *)
(* (InvalidTransition), status_id matching (Unauthorized), exactly one    *)
(* input (ValidationError); it succeeds exactly when none is violated,    *)
(* and a refused request leaves the store as it was -- on the store as   *)
(* it is, and on the same store with one job put in awaiting_input, where *)
(* the later checks are the ones that answer.  So a wrong status_id for a *)
(* job that is not awaiting_input gets InvalidTransition.                 *)
C19_Step ==
    lastReq'.op = "provide_input" =>
        /\ ErrorClass(lastResp') = FirstViolated(jobs, lastReq')
        /\ \A j \in DOMAIN jobs :
              LET js == [jobs EXCEPT ![j].status = "awaiting_input"]
              IN ErrorClass(provide_input(js, lastReq').resp)
                     = FirstViolated(js, lastReq')
        /\ ErrorClass(lastResp') # "none" => jobs' = jobs
        /\ (MismatchingId(jobs, lastReq')
               /\ jobs[lastReq'.job_id].status # "awaiting_input")
              => /\ ErrorClass(lastResp') = "InvalidTransition"
                 /\ ErrorClass(lastResp') # "Unauthorized"

C19_FirstViolatedReported == [][C19_Step]_vars

(* A request with a wrong status_id and both inputs, for a stored job     *)
(* that is not awaiting_input, has been answered InvalidTransition.       *)
C19_Witness ==
    /\ lastReq.op = "provide_input"
    /\ MismatchingId(jobs, lastReq)
    /\ ~ExactlyOneInput(lastReq)
    /\ jobs[lastReq.job_id].status # "awaiting_input"
    /\ ErrorClass(lastResp) = "InvalidTransition"

---------------------------------------------------------------------------
(* C20: the id of a 200 answer of status is the id drawn for that answer, *)
(* not the status_id of the job asked about nor of any other job, stored  *)
(* or replaced; and what status answers -- to any request, with any id    *)
(* drawn -- is the same when a stored job has another status_id.  The     *)
(* status_id of a successful start_job answer is that of the record it    *)
(* has just stored, and was in no answer before.                          *)
C20_StatusIdNotDisclosed ==
    /\ (lastReq.op = "status" /\ lastResp.http = 200) =>
          /\ lastResp.id \in ResponseIds
          /\ lastResp.id \notin issued
          /\ \A j \in DOMAIN jobs : lastResp.id # jobs[j].status_id
          /\ DOMAIN lastResp \subseteq
                {"http", "id", "job_id", "status", "input_schema", "result"}
    /\ \A j \in DOMAIN jobs, status_id \in StatusIds :
          \A req \in StatusRequests, fresh_id \in ResponseIds :
              status([jobs EXCEPT ![j].status_id = status_id], req, fresh_id).resp
                  = status(jobs, req, fresh_id).resp
    /\ (lastReq.op = "start_job" /\ lastResp.http = 200) =>
          /\ lastResp.id = jobs[lastResp.job_id].status_id
          /\ \A j \in DOMAIN jobs \ {lastResp.job_id} :
                lastResp.id # jobs[j].status_id

(* status has answered 200 for one of two stored jobs, with an id that is *)
(* not the job's status_id.                                               *)
C20_Witness ==
    /\ lastReq.op = "status"
    /\ lastResp.http = 200
    /\ Cardinality(DOMAIN jobs) >= 2
    /\ jobs[lastReq.job_id].status_id \in issued
    /\ lastResp.id # jobs[lastReq.job_id].status_id

====
